---- MODULE Spec2Model ----
(***************************************************************************)
(* GestureLSM (src/src/models/LSM.py): the time samplers, reshape_coefs,   *)
(* the training loss composer train_forward and the inference integrator   *)
(* forward, as a state machine.  Real numbers are exact rationals: a       *)
(* fraction <<n, d>> with d > 0 in lowest terms; d = 0 marks a non-finite  *)
(* value (<<0, 0>> is NaN, <<1, 0>> and <<-1, 0>> the infinities).         *)
(***************************************************************************)
EXTENDS Integers, Sequences, FiniteSets

VARIABLES pc,               \* which call is running and where it stands
          theta,            \* the denoiser's parameters during this call
          calls,            \* the invocations of the collaborators, in order
          batch_size, flow_batch_size,
          latents, x0_noise, t, d, x_t,
          flow_pred, force_cfg, speed_t, speed_td, speed_pred,
          losses, error,
          num_inference_steps, timesteps, delta_t, step, speed,
          x_cur,            \* forward's local x_t: the tensor the name is bound to
          heap,             \* the tensors forward holds, by reference
          return_dict,
          drawn_noise,      \* the value torch.randn returned in forward
          updates,          \* the step lengths forward's updates applied, in order
          ret,              \* the last call of a sampler or of reshape_coefs
          bundle,           \* the keys of condition_dict['y'] in this call
          generators,       \* torch's and numpy's global generators, as
                            \* train_forward's draws advance them
          stream,           \* what each generator has produced so far, by seed
          entry,            \* the generators when the running call began
          first,            \* the call before this one, when there was one
          val_best,         \* the trainer's best value and epoch, by metric
          files,            \* the checkpoints on disk, by path
          val_log           \* the epoch and the meters of every val_recording
                            \* call so far, in order

trainVars == <<batch_size, flow_batch_size, latents, x0_noise, t, d, x_t,
               flow_pred, force_cfg, speed_t, speed_td, speed_pred, losses>>
fwdVars == <<num_inference_steps, timesteps, delta_t, step, speed, x_cur, heap,
             return_dict, drawn_noise, updates>>
rngVars == <<generators, stream, entry, first>>
valVars == <<val_best, files, val_log>>
vars == <<pc, theta, calls, error, trainVars, fwdVars, ret, bundle, rngVars,
          valVars>>

\* ------------------------------------------------------------- bounds
MaxBatch == 5           \* batch sizes 0..MaxBatch
MaxTheta == 1           \* denoiser parameter settings 0..MaxTheta
MaxSteps == 4           \* num_inference_steps in 1..MaxSteps
MaxFwdBatch == 2        \* batch sizes 1..MaxFwdBatch of an inference call
InputDim == 2           \* cfg: denoiser.input_dim
SeqLen == 3             \* cfg: model.denoiser.params.seq_len
MaxSamples == 2         \* num_samples in 0..MaxSamples
MaxRank == 4            \* tensor ranks 0..MaxRank given to reshape_coefs
MaxDim == 2             \* tensor dimensions 0..MaxDim given to reshape_coefs
MaxSeed == 1            \* seeds 0..MaxSeed given to seed_everything
MaxRepeatBatch == 2     \* a call is followed a second time up to this batch size

\* ------------------------------------------------- rational arithmetic
Abs(n) == IF n < 0 THEN -n ELSE n
Sign(n) == IF n < 0 THEN -1 ELSE IF n > 0 THEN 1 ELSE 0

RECURSIVE GCD(_, _)
GCD(a, b) == IF b = 0 THEN a ELSE GCD(b, a % b)

LCM(a, b) == (a \div GCD(a, b)) * b

NaN == <<0, 0>>
Frac(n, dn) ==
    IF dn = 0 THEN <<Sign(n), 0>>
    ELSE LET g == GCD(Abs(n), Abs(dn))
             s == Sign(dn)
         IN  <<(s * n) \div g, (s * dn) \div g>>
Num(n) == <<n, 1>>
IsFinite(a) == a[2] # 0
IsNaN(a) == a = NaN

FAdd(a, b) ==
    IF IsFinite(a) /\ IsFinite(b)
    THEN Frac(a[1] * (LCM(a[2], b[2]) \div a[2]) + b[1] * (LCM(a[2], b[2]) \div b[2]),
              LCM(a[2], b[2]))
    ELSE IF IsNaN(a) \/ IsNaN(b) THEN NaN
    ELSE IF IsFinite(a) THEN b
    ELSE IF IsFinite(b) THEN a
    ELSE IF a = b THEN a ELSE NaN
FNeg(a) == <<-a[1], a[2]>>
FSub(a, b) == FAdd(a, FNeg(b))
FMul(a, b) ==
    IF IsFinite(a) /\ IsFinite(b) THEN Frac(a[1] * b[1], a[2] * b[2])
    ELSE IF IsNaN(a) \/ IsNaN(b) \/ a[1] = 0 \/ b[1] = 0 THEN NaN
    ELSE <<Sign(a[1]) * Sign(b[1]), 0>>
FDiv(a, b) ==
    IF IsNaN(a) \/ IsNaN(b) THEN NaN
    ELSE IF IsFinite(b)
         THEN (IF IsFinite(a) THEN Frac(a[1] * b[2], a[2] * b[1])
               ELSE IF b[1] = 0 THEN a ELSE <<a[1] * Sign(b[1]), 0>>)
         ELSE (IF IsFinite(a) THEN Num(0) ELSE NaN)
FLess(a, b) ==
    /\ IsFinite(a) /\ IsFinite(b)
    /\ a[1] * (LCM(a[2], b[2]) \div a[2]) < b[1] * (LCM(a[2], b[2]) \div b[2])
FLeq(a, b) == IsFinite(a) /\ IsFinite(b) /\ (a = b \/ FLess(a, b))

RECURSIVE FSum(_)
FSum(s) == IF s = <<>> THEN Num(0) ELSE FAdd(Head(s), FSum(Tail(s)))

\* torch's mean: the sum over the element count; over no elements 0/0 = NaN
Mean(s) == FDiv(FSum(s), Num(Len(s)))

\* Python's s[lo:hi] on 0-based positions lo..hi-1, as the 1-based sequence
Slice(s, lo, hi) == SubSeq(s, lo + 1, hi)

\* ------------------------------------------------ train_forward: data
NumDeltas == 7
RECURSIVE Pow2(_)
Pow2(i) == IF i = 0 THEN 1 ELSE 2 * Pow2(i - 1)

\* deltas = 1 / torch.tensor([2 ** i for i in range(1, 8)])
deltas == [i \in 1..NumDeltas |-> Frac(1, Pow2(i))]

\* delta_probs.multinomial(batch_size, replacement=True): batch_size indices,
\* each any of the candidates (all have probability 1/7 > 0), as 1-based
\* positions in deltas
MultinomialDraws(n) == [1..n -> 1..NumDeltas]

\* the split with the integer division done first
FlowBatchSizeDivFirst(B) == (B \div 4) * 3

\* the split rounded to the nearest whole number
FlowBatchSizeRounded(B) == (B * 3 + 2) \div 4

\* int(batch_size * 3/4): the product, the true division, the truncation
FlowBatchSize(B) == (B * 3) \div 4

\* the drawn step sizes with the prefix left as drawn
StepSizesAsDrawn(idx, fbs) == [i \in 1..Len(idx) |-> deltas[idx[i]]]

\* d[:flow_batch_size] = 0 on d = deltas[indices]
StepSizes(idx, fbs) ==
    [i \in 1..Len(idx) |-> IF i <= fbs THEN Num(0) ELSE deltas[idx[i]]]

\* torch.sigmoid(torch.randn(batch_size)): values strictly inside (0, 1); one
\* draw of the whole vector: all 3/4, all 1/4, or 3/4 for the last example
\* alone
TDraws(n) ==
    {[i \in 1..n |-> IF i <= k THEN Frac(1, 4) ELSE Frac(3, 4)] : k \in {0, n - 1, n}}
\* torch.randn_like(latents); one draw of the whole tensor: the two vectors
\* of alternating sign
NoiseDraws(n) ==
    {[i \in 1..n |-> IF i % 2 = k THEN Num(1) ELSE Num(-1)] : k \in 0..1}
\* the caller's target latents, one representative element per example
LatentInputs(B) == {[i \in 1..B |-> Num(i)]}
BoolSeqs(n) == [1..n -> BOOLEAN]

\* x_t = t_coef * latents + (1 - t_coef) * x0_noise
Mix(tc, x1, x0) ==
    [i \in 1..Len(x1) |->
        FAdd(FMul(tc[i], x1[i]), FMul(FSub(Num(1), tc[i]), x0[i]))]

\* The velocity network: a fixed function of its parameters and of what it
\* is given, one value per example, of the shape of x.
Denoiser(th, x, ts, cond, force, has_force) ==
    [i \in 1..Len(x) |->
        Num(((th + (IF cond[i] = Num(0) THEN 0 ELSE 1)
                 + (IF has_force /\ force[i] THEN 1 ELSE 0)
                 + (IF FLess(Num(0), x[i]) THEN 1 ELSE 0)
                 + (IF FLess(Frac(1, 2), ts[i]) THEN 1 ELSE 0)) % 3) - 1)]

\* ------------------------------------------------- the condition bundle
\* the keys both entry points read with condition_dict['y'][key], in the
\* order of lines 306-321
RequiredKeysWithoutMask ==
    <<"audio_tensor", "audio_low", "audio_high", "id", "seed", "style_feature",
      "intention_embeddings">>
RequiredKeys ==
    <<"audio_tensor", "audio_low", "audio_high", "id", "seed", "style_feature",
      "intention_embeddings", "intention_mask">>
\* the keys read only behind an `in` test
OptionalKeys == {"audio_onset", "word"}
AllKeys == {RequiredKeys[i] : i \in 1..Len(RequiredKeys)} \cup OptionalKeys

\* the bundles a caller passes: every required key with any of the optional
\* ones, and the full bundle short of one required key
Bundles ==
    {(AllKeys \ OptionalKeys) \cup o : o \in SUBSET OptionalKeys}
        \cup {AllKeys \ {k} : k \in AllKeys \ OptionalKeys}

\* condition_dict['y'][key] raises KeyError for a key that is not there
MissingKeys(b) == {RequiredKeys[i] : i \in 1..Len(RequiredKeys)} \ b

\* the value read for an optional key; a value stands for itself by its key
Optional(b, key) == IF key \in b THEN key ELSE "None"

\* forward, lines 160-172, where `word` has no else branch: the name is
\* unbound when the encoder's arguments are evaluated
ForwardFailure(b) ==
    IF MissingKeys(b) # {} THEN "KeyError"
    ELSE IF "word" \notin b THEN "UnboundLocalError"
    ELSE "none"

\* train_forward, lines 306-321: word = None in the else branch
TrainFailure(b) == IF MissingKeys(b) # {} THEN "KeyError" ELSE "none"

\* a per-example tensor of the bundle or of the encoder, by row
Rows(name, B) == [i \in 1..B |-> <<name, i>>]

\* the conditioning of the whole batch, whatever the slice
ConditioningWhole(B, lo, hi) ==
    [seed |-> Rows("seed", B),
     at_feat |-> Rows("audio_low", B),
     intent_feat |-> Rows("audio_high", B),
     instance_ids |-> Rows("id", B),
     style_features |-> Rows("style_feature", B)]

\* seed_vectors[lo:hi], at_feat[lo:hi], intent_feat[lo:hi],
\* instance_ids[lo:hi], style_features[lo:hi]
Conditioning(B, lo, hi) ==
    [seed |-> Slice(Rows("seed", B), lo, hi),
     at_feat |-> Slice(Rows("audio_low", B), lo, hi),
     intent_feat |-> Slice(Rows("audio_high", B), lo, hi),
     instance_ids |-> Slice(Rows("id", B), lo, hi),
     style_features |-> Slice(Rows("style_feature", B), lo, hi)]

DenoiserCall(x, ts, cond, force, has_force, no_grad, y) ==
    [fn |-> "denoiser", x |-> x, timesteps |-> ts, cond_time |-> cond,
     force_cfg |-> force, has_force |-> has_force, no_grad |-> no_grad,
     seed |-> y.seed, at_feat |-> y.at_feat, intent_feat |-> y.intent_feat,
     instance_ids |-> y.instance_ids, style_features |-> y.style_features]
EncoderCall(b) ==
    [fn |-> "modality_encoder", audio_onset |-> Optional(b, "audio_onset"),
     word |-> Optional(b, "word")]

\* ------------------------------------------------ the random generators
Seeds == 0..MaxSeed
GenState(seed, pos) == [seed |-> seed, pos |-> pos]

\* the generators as the libraries create them
NoGenerators == [torch |-> GenState(0, 0), numpy |-> GenState(0, 0), seeded |-> -1]

\* seeding that leaves numpy's generator as it is
seed_torch_only(gens, seed) ==
    [gens EXCEPT !.torch = GenState(seed, 0), !.seeded = seed]

\* seed_everything, train.py lines 418-425: np.random.seed(seed),
\* torch.manual_seed(seed) and torch.cuda.manual_seed_all(seed) put each
\* generator in the state the seed names
seed_everything(gens, seed) ==
    [torch |-> GenState(seed, 0), numpy |-> GenState(seed, 0), seeded |-> seed]

\* a generator is a fixed function of its state: what it produced in a state
\* before, it produces there again; elsewhere the value is open
Agrees(tape, g, v) == g.pos < Len(tape[g.seed]) => tape[g.seed][g.pos + 1] = v
Reveal(tape, g, v) ==
    IF g.pos < Len(tape[g.seed]) THEN tape
    ELSE [tape EXCEPT ![g.seed] = Append(@, v)]
After(g, n) == GenState(g.seed, g.pos + n)
\* n draws from the generator called name; the seeding is no longer fresh
Drawn(gens, name, n) == [gens EXCEPT ![name] = After(@, n), !.seeded = -1]
NoStream == [torch |-> [s \in Seeds |-> <<>>], numpy |-> [s \in Seeds |-> <<>>]]
NoFirst == [called |-> FALSE]

\* ------------------------------------------ train_forward: the formulas
\* x_td = x_t[flow_batch_size:] + d_coef[flow_batch_size:] * speed_t
x_td_plain(x, dd, sp) == x
x_td(x, dd, sp) == [i \in 1..Len(x) |-> FAdd(x[i], FMul(dd[i], sp[i]))]

\* the time of the second evaluation held at 1
TimePlusStepClamped(ts, dd) ==
    [i \in 1..Len(ts) |->
        IF FLess(Num(1), FAdd(ts[i], dd[i])) THEN Num(1) ELSE FAdd(ts[i], dd[i])]
\* t[flow_batch_size:] + d[flow_batch_size:]
TimePlusStep(ts, dd) == [i \in 1..Len(ts) |-> FAdd(ts[i], dd[i])]

\* the step multiplied by four
QuadrupleStep(dd) == [i \in 1..Len(dd) |-> FMul(Num(4), dd[i])]
\* 2 * d[flow_batch_size:]
DoubleStep(dd) == [i \in 1..Len(dd) |-> FMul(Num(2), dd[i])]

\* speed_target = (speed_t + speed_td) / 2
SpeedTarget(a, b) == [i \in 1..Len(a) |-> FDiv(FAdd(a[i], b[i]), Num(2))]

SquaredError(a, b) ==
    [i \in 1..Len(a) |-> FMul(FSub(a[i], b[i]), FSub(a[i], b[i]))]
\* F.mse_loss(a, b) with the default reduction="mean"
MseLoss(a, b) == Mean(SquaredError(a, b))

\* (F.mse_loss(flow_target, flow_pred) / t).mean(): the scalar over the
\* whole vector t, then the mean of that vector
FlowLoss(target, pred, tt) ==
    LET mse == MseLoss(target, pred)
    IN  Mean([i \in 1..Len(tt) |-> FDiv(mse, tt[i])])

\* sum(losses.values()) over the entries present, from Python's start 0
RECURSIVE SumValues(_, _)
SumValues(dict, keys) ==
    IF keys = {} THEN Num(0)
    ELSE LET k == CHOOSE k \in keys : TRUE
         IN  FAdd(dict[k], SumValues(dict, keys \ {k}))
\* the total with the consistency term left out
TotalLossFlowOnly(dict) == dict["flow_loss"]

TotalLoss(dict) == SumValues(dict, DOMAIN dict)

Put(dict, k, v) == [x \in DOMAIN dict \cup {k} |-> IF x = k THEN v ELSE dict[x]]
EmptyDict == [x \in {} |-> NaN]

\* ---------------------------------------------------- train_forward
\* lines 305-329: the bundle is read and the modality encoder invoked
TrainCall ==
    /\ UNCHANGED valVars
    /\ UNCHANGED <<fwdVars, ret, generators, stream, first>>
    /\ pc = "idle"
    /\ \E B \in 0..MaxBatch, th \in 0..MaxTheta, b \in Bundles :
         \E x1 \in LatentInputs(B) :
            /\ latents' = x1
            /\ theta' = th
            /\ bundle' = b
            /\ IF TrainFailure(b) # "none"
               THEN /\ error' = TrainFailure(b)
                    /\ pc' = "train_error"
                    /\ UNCHANGED calls
               ELSE /\ calls' = Append(calls, EncoderCall(b))
                    /\ pc' = "train_sample"
                    /\ UNCHANGED error
    /\ entry' = generators
    /\ UNCHANGED <<batch_size, flow_batch_size, x0_noise, t, d, x_t,
                   flow_pred, force_cfg, speed_t, speed_td, speed_pred, losses>>

\* lines 331-351: noise, the split, t, d and the mixed input, three draws
\* from torch's generator.  multinomial refuses to draw zero samples, which
\* ends the call with its RuntimeError.  The outcomes of the index draw are
\* the vectors d it can leave, and the stream keeps the draw as d, the only
\* place the call keeps it.
TrainSample ==
    /\ UNCHANGED valVars
    /\ UNCHANGED <<fwdVars, ret, bundle, entry, first>>
    /\ pc = "train_sample"
    /\ UNCHANGED <<theta, calls, latents, flow_pred, force_cfg, speed_t,
                   speed_td, speed_pred, losses>>
    /\ batch_size' = Len(latents)
    /\ flow_batch_size' = FlowBatchSize(Len(latents))
    /\ \E dd \in {StepSizes(idx, FlowBatchSize(Len(latents))) :
                     idx \in MultinomialDraws(Len(latents))} :
       \E x0 \in NoiseDraws(Len(latents)), tt \in TDraws(Len(latents)) :
         LET g == generators.torch
             seen == Reveal(Reveal(stream.torch, g, x0), After(g, 1), tt)
         IN  /\ Agrees(stream.torch, g, x0)
             /\ Agrees(stream.torch, After(g, 1), tt)
             /\ x0_noise' = x0
             /\ t' = tt
             /\ IF Len(latents) = 0
                THEN /\ error' = "RuntimeError"
                     /\ pc' = "train_error"
                     /\ generators' = Drawn(generators, "torch", 2)
                     /\ stream' = [stream EXCEPT !.torch = seen]
                     /\ UNCHANGED <<d, x_t>>
                ELSE /\ Agrees(stream.torch, After(g, 2), dd)
                     /\ d' = dd
                     /\ x_t' = Mix(tt, latents, x0)
                     /\ pc' = "train_flow"
                     /\ generators' = Drawn(generators, "torch", 3)
                     /\ stream' = [stream EXCEPT
                                      !.torch = Reveal(seen, After(g, 2), dd)]
                     /\ UNCHANGED error

\* lines 353-369: the flow prediction on x[:flow_batch_size] and the flow loss
TrainFlow ==
    /\ UNCHANGED valVars
    /\ UNCHANGED <<fwdVars, ret, bundle, rngVars>>
    /\ pc = "train_flow"
    /\ LET fbs == flow_batch_size
           x == Slice(x_t, 0, fbs)
           ts == Slice(t, 0, fbs)
           cond == Slice(d, 0, fbs)
           pred == Denoiser(theta, x, ts, cond, <<>>, FALSE)
           flow_target == [i \in 1..fbs |-> FSub(latents[i], x0_noise[i])]
       IN  /\ calls' = Append(calls, DenoiserCall(x, ts, cond, <<>>, FALSE, FALSE,
                                                  Conditioning(batch_size, 0, fbs)))
           /\ flow_pred' = pred
           /\ losses' = Put(EmptyDict, "flow_loss", FlowLoss(flow_target, pred, t))
    /\ pc' = "train_speed_t"
    /\ UNCHANGED <<theta, error, batch_size, flow_batch_size, latents, x0_noise,
                   t, d, x_t, force_cfg, speed_t, speed_td, speed_pred>>

\* lines 373-385: the force flags, one draw from numpy's generator, then
\* speed_t without gradient
TrainSpeedT ==
    /\ UNCHANGED valVars
    /\ UNCHANGED <<fwdVars, ret, bundle, entry, first>>
    /\ pc = "train_speed_t"
    /\ \E fc \in BoolSeqs(batch_size - flow_batch_size) :
         LET x == Slice(x_t, flow_batch_size, batch_size)
             ts == Slice(t, flow_batch_size, batch_size)
             cond == Slice(d, flow_batch_size, batch_size)
         IN  /\ Agrees(stream.numpy, generators.numpy, fc)
             /\ stream' = [stream EXCEPT !.numpy = Reveal(@, generators.numpy, fc)]
             /\ force_cfg' = fc
             /\ speed_t' = Denoiser(theta, x, ts, cond, fc, TRUE)
             /\ calls' = Append(calls, DenoiserCall(x, ts, cond, fc, TRUE, TRUE,
                                   Conditioning(batch_size, flow_batch_size, batch_size)))
    /\ generators' = Drawn(generators, "numpy", 1)
    /\ pc' = "train_speed_td"
    /\ UNCHANGED <<theta, error, batch_size, flow_batch_size, latents, x0_noise,
                   t, d, x_t, flow_pred, speed_td, speed_pred, losses>>

\* lines 387-401: x_td = x_t + d_coef * speed_t, then speed_td at t + d
TrainSpeedTd ==
    /\ UNCHANGED valVars
    /\ UNCHANGED <<fwdVars, ret, bundle, rngVars>>
    /\ pc = "train_speed_td"
    /\ LET x == Slice(x_t, flow_batch_size, batch_size)
           ts == Slice(t, flow_batch_size, batch_size)
           cond == Slice(d, flow_batch_size, batch_size)
           xtd == x_td(x, cond, speed_t)
           t_d == TimePlusStep(ts, cond)
       IN  /\ speed_td' = Denoiser(theta, xtd, t_d, cond, force_cfg, TRUE)
           /\ calls' = Append(calls, DenoiserCall(xtd, t_d, cond, force_cfg, TRUE, TRUE,
                                 Conditioning(batch_size, flow_batch_size, batch_size)))
    /\ pc' = "train_pred"
    /\ UNCHANGED <<theta, error, batch_size, flow_batch_size, latents, x0_noise,
                   t, d, x_t, flow_pred, force_cfg, speed_t, speed_pred, losses>>

\* lines 405-415: the trainable prediction at cond_time = 2 * d
TrainPred ==
    /\ UNCHANGED valVars
    /\ UNCHANGED <<fwdVars, ret, bundle, rngVars>>
    /\ pc = "train_pred"
    /\ LET x == Slice(x_t, flow_batch_size, batch_size)
           ts == Slice(t, flow_batch_size, batch_size)
           cond == DoubleStep(Slice(d, flow_batch_size, batch_size))
       IN  /\ speed_pred' = Denoiser(theta, x, ts, cond, force_cfg, TRUE)
           /\ calls' = Append(calls, DenoiserCall(x, ts, cond, force_cfg, TRUE, FALSE,
                                 Conditioning(batch_size, flow_batch_size, batch_size)))
    /\ pc' = "train_return"
    /\ UNCHANGED <<theta, error, batch_size, flow_batch_size, latents, x0_noise,
                   t, d, x_t, flow_pred, force_cfg, speed_t, speed_td, losses>>

\* lines 403, 417-421: the target, the consistency loss, the total, the return
TrainReturn ==
    /\ UNCHANGED valVars
    /\ UNCHANGED <<fwdVars, ret, bundle, rngVars>>
    /\ pc = "train_return"
    /\ LET withCons == Put(losses, "consistency_loss",
                           MseLoss(speed_pred, SpeedTarget(speed_t, speed_td)))
       IN  losses' = Put(withCons, "loss", TotalLoss(withCons))
    /\ pc' = "train_done"
    /\ UNCHANGED <<theta, calls, error, batch_size, flow_batch_size, latents,
                   x0_noise, t, d, x_t, flow_pred, force_cfg, speed_t, speed_td,
                   speed_pred>>

\* ------------------------------------------------- a call made again
\* the calls that are followed a second time
Repeatable ==
    /\ pc \in {"train_done", "train_error"}
    /\ ~first.called
    /\ Len(latents) <= MaxRepeatBatch

\* train.py lines 418-425, called between two invocations
SeedEverything ==
    /\ Repeatable
    /\ \E seed \in Seeds : generators' = seed_everything(generators, seed)
    /\ UNCHANGED <<pc, theta, calls, error, trainVars, fwdVars, ret, bundle,
                   stream, entry, first, valVars>>

\* train_forward, lines 305-329, invoked again with the same condition_dict
\* and the same latents, right after seed_everything was given the seed the
\* call before began with; the denoiser is the same or another
TrainAgain ==
    /\ UNCHANGED valVars
    /\ UNCHANGED <<fwdVars, ret, bundle, generators, stream, latents>>
    /\ Repeatable
    /\ generators.seeded >= 0
    /\ generators.seeded = entry.seeded
    /\ \E th \in 0..MaxTheta : theta' = th
    /\ first' = [called |-> TRUE, entry |-> entry, theta |-> theta,
                 latents |-> latents, bundle |-> bundle, x0_noise |-> x0_noise,
                 t |-> t, d |-> d, force_cfg |-> force_cfg, losses |-> losses,
                 error |-> error, pc |-> pc]
    /\ entry' = generators
    /\ IF TrainFailure(bundle) # "none"
       THEN /\ error' = TrainFailure(bundle)
            /\ pc' = "train_error"
            /\ calls' = <<>>
       ELSE /\ calls' = <<EncoderCall(bundle)>>
            /\ pc' = "train_sample"
            /\ error' = "none"
    /\ batch_size' = 0
    /\ flow_batch_size' = 0
    /\ x0_noise' = <<>>
    /\ t' = <<>>
    /\ d' = <<>>
    /\ x_t' = <<>>
    /\ flow_pred' = <<>>
    /\ force_cfg' = <<>>
    /\ speed_t' = <<>>
    /\ speed_td' = <<>>
    /\ speed_pred' = <<>>
    /\ losses' = EmptyDict

\* ------------------------------------------------------ forward: data
\* epsilon = 1e-8 is 1 / EpsInv.  Within a call with N steps, times and
\* latent values are whole multiples of the unit 1 / (EpsInv * N).
EpsInv == 100000000
Units(num, den, N) == (num * EpsInv * N) \div den

\* torch.linspace(start, end, steps): steps points, start + k * (end - start)
\* / (steps - 1) for k = 0 .. steps-1
Linspace(start, end, steps) ==
    [k \in 1..steps |-> start + (k - 1) * ((end - start) \div (steps - 1))]

\* the grid with one point too many
TimeGridLong(N) == Linspace(Units(1, EpsInv, N), Units(1, 1, N) - Units(1, EpsInv, N), N + 2)

\* timesteps = torch.linspace(epsilon, 1 - epsilon, num_inference_steps + 1)
TimeGrid(N) == Linspace(Units(1, EpsInv, N), Units(1, 1, N) - Units(1, EpsInv, N), N + 1)
\* cond_time taken from the grid instead
DeltaTFromGrid(N) == Units(1, N, N) - 2

\* delta_t = torch.tensor(1 / self.num_inference_steps)
DeltaT(N) == Units(1, N, N)

Tensor(shape, val) == [shape |-> shape, val |-> val]
NoTensor == Tensor(<<>>, <<>>)
EmptyHeap == [r \in {} |-> NoTensor]
EmptyRefs == [k \in {} |-> 0]
RangeOf(f) == {f[k] : k \in DOMAIN f}

\* latent_shape = (batch_size, self.input_dim, 1, self.seq_len)
LatentShape(B) == <<B, InputDim, 1, SeqLen>>
\* torch.randn(latent_shape), one representative element per example
FwdNoiseDraws(B, N) ==
    {Tensor(LatentShape(B),
            [i \in 1..B |-> (IF i % 2 = k THEN 1 ELSE -1) * Units(1, 1, N)]) :
        k \in 0..1}

\* condition_dict['y']['seed'] and the encoder's audio_low and audio_high
SeedVectors(B) == Tensor(<<B>>, [i \in 1..B |-> i])
AudioLow(B) == Tensor(<<B, SeqLen>>, [i \in 1..B |-> 2 * i])
AudioHigh(B) == Tensor(<<B, SeqLen>>, [i \in 1..B |-> 3 * i])

\* forward_with_cfg: the guided velocity, of the shape of x
ForwardWithCfg(th, x, current_t, cond, N) ==
    Tensor(x.shape,
           [i \in 1..Len(x.val) |->
               ((th + i + (IF x.val[i] > 0 THEN 1 ELSE 0)
                    + (IF 2 * current_t > Units(1, 1, N) THEN 1 ELSE 0)) % 3) - 1])
GuidedCall(x, current_t, cond) ==
    [fn |-> "forward_with_cfg", x |-> x, timesteps |-> current_t,
     cond_time |-> cond, no_grad |-> TRUE]

\* the right end of the step in place of the left
CurrentTRight(ts, k) == ts[k + 1]
\* current_t = timesteps[step - 1], Python's step counting from 1 over
\* 0-based positions: the left end of step k
CurrentT(ts, k) == ts[k]

\* the heap without the tensors no name refers to any more
Collect(h, live) == [r \in (DOMAIN h) \cap live |-> h[r]]
NewRef(h) == IF DOMAIN h = {} THEN 1
             ELSE 1 + CHOOSE m \in DOMAIN h : \A r \in DOMAIN h : r <= m

\* x_t + (timesteps[step] - timesteps[step - 1]) * speed: the value
Advance(x, dt, v) ==
    Tensor(x.shape, [i \in 1..Len(x.val) |-> x.val[i] + dt * v.val[i]])

\* x_t += ... : the sum written into the tensor x_t is bound to
RebindInPlace(h, ref, value) ==
    [heap |-> [r \in DOMAIN h |-> IF r = ref THEN value ELSE h[r]], ref |-> ref]

\* x_t = x_t + ... : the sum is a new tensor and the name x_t is bound to it;
\* the tensor it was bound to is left as it was
Rebind(h, ref, value) ==
    [heap |-> [r \in DOMAIN h \cup {NewRef(h)} |->
                  IF r = NewRef(h) THEN value ELSE h[r]],
     ref |-> NewRef(h)]

\* ---------------------------------------------------------- forward
\* lines 151-191: the bundle, the encoder, the noise, the grid
ForwardCall ==
    /\ UNCHANGED valVars
    /\ UNCHANGED <<trainVars, ret, rngVars>>
    /\ pc = "idle"
    /\ \E b \in Bundles :
         /\ bundle' = b
         /\ IF ForwardFailure(b) # "none"
            THEN /\ error' = ForwardFailure(b)
                 /\ pc' = "fwd_error"
                 /\ UNCHANGED <<theta, calls, fwdVars>>
            ELSE /\ \E N \in 1..MaxSteps, B \in 1..MaxFwdBatch, th \in 0..MaxTheta :
                      \E noise \in FwdNoiseDraws(B, N) :
                         /\ num_inference_steps' = N
                         /\ theta' = th
                         /\ drawn_noise' = noise
                         /\ heap' = [r \in 1..4 |->
                                       IF r = 1 THEN SeedVectors(B)
                                       ELSE IF r = 2 THEN AudioLow(B)
                                       ELSE IF r = 3 THEN AudioHigh(B)
                                       ELSE noise]
                         /\ timesteps' = TimeGrid(N)
                         /\ delta_t' = DeltaT(N)
                 /\ return_dict' =
                       [k \in {"seed", "at_feat", "intent_feat", "init_noise"} |->
                           IF k = "seed" THEN 1 ELSE IF k = "at_feat" THEN 2
                           ELSE IF k = "intent_feat" THEN 3 ELSE 4]
                 /\ x_cur' = 4
                 /\ step' = 1
                 /\ updates' = <<>>
                 /\ calls' = Append(calls, EncoderCall(b))
                 /\ pc' = "fwd_loop"
                 /\ UNCHANGED <<error, speed>>

\* lines 194-209: for step in range(1, len(timesteps)): the guided velocity
ForwardOracle ==
    /\ UNCHANGED valVars
    /\ UNCHANGED <<trainVars, ret, bundle, rngVars>>
    /\ pc = "fwd_loop"
    /\ step < Len(timesteps)
    /\ speed' = ForwardWithCfg(theta, heap[x_cur], CurrentT(timesteps, step),
                               delta_t, num_inference_steps)
    /\ calls' = Append(calls, GuidedCall(heap[x_cur], CurrentT(timesteps, step),
                                         delta_t))
    /\ pc' = "fwd_update"
    /\ UNCHANGED <<theta, error, num_inference_steps, timesteps, delta_t, step,
                   x_cur, heap, return_dict, drawn_noise, updates>>

\* line 211: x_t = x_t + (timesteps[step] - timesteps[step - 1]) * speed
ForwardUpdate ==
    /\ UNCHANGED valVars
    /\ UNCHANGED <<trainVars, ret, bundle, rngVars>>
    /\ pc = "fwd_update"
    /\ LET dt == timesteps[step + 1] - timesteps[step]
           now == Rebind(heap, x_cur, Advance(heap[x_cur], dt, speed))
       IN  /\ x_cur' = now.ref
           /\ heap' = Collect(now.heap, RangeOf(return_dict) \cup {now.ref})
    /\ step' = step + 1
    /\ updates' = Append(updates, timesteps[step + 1] - timesteps[step])
    /\ pc' = "fwd_loop"
    /\ UNCHANGED <<theta, calls, error, num_inference_steps, timesteps, delta_t,
                   speed, return_dict, drawn_noise>>

\* lines 212-213: the loop is over; return_dict['latents'] = x_t
ForwardReturn ==
    /\ UNCHANGED valVars
    /\ UNCHANGED <<trainVars, ret, bundle, rngVars>>
    /\ pc = "fwd_loop"
    /\ step >= Len(timesteps)
    /\ return_dict' = Put(return_dict, "latents", x_cur)
    /\ pc' = "fwd_done"
    /\ UNCHANGED <<theta, calls, error, num_inference_steps, timesteps, delta_t,
                   step, speed, x_cur, heap, drawn_noise, updates>>

\* ------------------------------------------------------ the samplers
\* A base draw is a whole number of thousandths, a returned value a whole
\* number of units of 1 / (BaseDen * TInv) = 1e-8; t_min = 1e-5 is 1 / TInv.
TInv == 100000
BaseDen == 10 * 10 * 10
One == BaseDen * TInv
t_min == One \div TInv
t_max == One - One \div TInv

\* the rescaling without the offset t_min
ScaleNoOffset(x, lo, hi) == x * ((hi - lo) \div BaseDen)

\* t * (t_max - t_min) + t_min, on t = x / BaseDen
Scale(x, lo, hi) == x * ((hi - lo) \div BaseDen) + lo

\* torch.rand: uniform on [0, 1), 0 included and 1 not
RandValues == {0, 250, 750}
\* exponential_pdf.rvs and Beta.sample: draws on the support [0, 1]
SupportValues == {0, 250, 750, 1000}

\* (1/a) * log(1 + u * (exp(a) - 1)) at a = 2, to three decimals; exact at 0
InverseCdf(u) ==
    CASE u = 0 -> 0
      [] u = 250 -> 477
      [] u = 500 -> 717
      [] u = 750 -> 878

\* 1 - 1 / (tan(pi/2 * u) + 1), to three decimals; exact at 0 and at 1/2
CosMap(u) ==
    CASE u = 0 -> 0
      [] u = 250 -> 293
      [] u = 500 -> 500
      [] u = 750 -> 707

\* torch.cat([t, 1 - t])
WithMirror(s) ==
    [j \in 1..(2 * Len(s)) |-> IF j <= Len(s) THEN s[j] ELSE BaseDen - s[j - Len(s)]]

\* t[torch.randperm(len)][:n]: the first n entries of a permutation, the
\* positions pairwise different
Selections(len, n) ==
    {p \in [1..n -> 1..len] : \A i, j \in 1..n : i # j => p[i] # p[j]}
Take(s, p) == [i \in 1..Len(p) |-> s[p[i]]]
ScaleAll(s, lo, hi) == [i \in 1..Len(s) |-> Scale(s[i], lo, hi)]

Return(fn, arg, out, err) == [fn |-> fn, arg |-> arg, out |-> out, error |-> err]
NoReturn == Return("none", <<>>, <<>>, "none")

\* sample_t, lines 31-43
sample_t(draws, p) == ScaleAll(Take(WithMirror(draws), p), t_min, t_max)

\* sample_t_fast, lines 70-90: the uniforms are num_samples * 2
sample_t_fast(u, p) ==
    ScaleAll(Take(WithMirror([i \in 1..Len(u) |-> InverseCdf(u[i])]), p),
             t_min, t_max)

\* sample_beta_distribution, lines 45-68
sample_beta_distribution(samples) == ScaleAll(samples, t_min, t_max)

\* sample_cosmap, lines 92-109
sample_cosmap(u) == ScaleAll([i \in 1..Len(u) |-> CosMap(u[i])], t_min, t_max)

SampleT ==
    /\ pc = "idle"
    /\ \E n \in 0..MaxSamples :
         \E draws \in [1..n -> SupportValues], p \in Selections(2 * n, n) :
            ret' = Return("sample_t", <<n>>, sample_t(draws, p), "none")
    /\ pc' = "returned"
    /\ UNCHANGED <<theta, calls, error, trainVars, fwdVars, bundle, rngVars,
                   valVars>>

SampleTFast ==
    /\ pc = "idle"
    /\ \E n \in 0..MaxSamples :
         \E out \in {sample_t_fast(u, p) :
                        u \in [1..(2 * n) -> RandValues], p \in Selections(4 * n, n)} :
            ret' = Return("sample_t_fast", <<n>>, out, "none")
    /\ pc' = "returned"
    /\ UNCHANGED <<theta, calls, error, trainVars, fwdVars, bundle, rngVars,
                   valVars>>

SampleBetaDistribution ==
    /\ pc = "idle"
    /\ \E n \in 0..MaxSamples :
         \E samples \in [1..n -> SupportValues] :
            ret' = Return("sample_beta_distribution", <<n>>,
                          sample_beta_distribution(samples), "none")
    /\ pc' = "returned"
    /\ UNCHANGED <<theta, calls, error, trainVars, fwdVars, bundle, rngVars,
                   valVars>>

SampleCosmap ==
    /\ pc = "idle"
    /\ \E n \in 0..MaxSamples :
         \E u \in [1..n -> RandValues \cup {500}] :
            ret' = Return("sample_cosmap", <<n>>, sample_cosmap(u), "none")
    /\ pc' = "returned"
    /\ UNCHANGED <<theta, calls, error, trainVars, fwdVars, bundle, rngVars,
                   valVars>>

\* --------------------------------------------------- reshape_coefs
RECURSIVE Numel(_)
Numel(shape) == IF shape = <<>> THEN 1 ELSE Head(shape) * Numel(Tail(shape))

Shapes == UNION {[1..r -> 0..MaxDim] : r \in 0..MaxRank}

\* reshape_coefs with a check that the input has one dimension
reshape_coefs_checked(shape) ==
    IF Len(shape) = 0 THEN Return("reshape_coefs", shape, <<>>, "IndexError")
    ELSE IF Len(shape) # 1
         THEN Return("reshape_coefs", shape, <<>>, "RuntimeError")
         ELSE Return("reshape_coefs", shape, <<shape[1], 1, 1, 1>>, "none")

\* t.reshape((t.shape[0], 1, 1, 1)), line 112: t.shape[0] needs a first
\* dimension, and reshape needs the element counts to agree
reshape_coefs(shape) ==
    IF Len(shape) = 0 THEN Return("reshape_coefs", shape, <<>>, "IndexError")
    ELSE IF Numel(shape) # Numel(<<shape[1], 1, 1, 1>>)
         THEN Return("reshape_coefs", shape, <<>>, "RuntimeError")
         ELSE Return("reshape_coefs", shape, <<shape[1], 1, 1, 1>>, "none")

ReshapeCoefs ==
    /\ pc = "idle"
    /\ \E shape \in Shapes : ret' = reshape_coefs(shape)
    /\ pc' = "returned"
    /\ UNCHANGED <<theta, calls, error, trainVars, fwdVars, bundle, rngVars,
                   valVars>>

\* ------------------------------------------------ validation records
MaxValidations == 2     \* val_recording calls followed in one run
MaxRecorded == 2        \* meters with count > 0 followed in one run
val_period == 10        \* cfg.val_period: validation runs every val_period epochs
TrainLoaderLen == 2     \* len(self.train_loader)

PosInf == Frac(1, 0)
NegInf == Frac(-1, 0)

\* Python's < on floats: false when either side is NaN
FloatLess(a, b) ==
    /\ ~IsNaN(a) /\ ~IsNaN(b)
    /\ IF IsFinite(a) /\ IsFinite(b) THEN FLess(a, b)
       ELSE a # b /\ (a = NegInf \/ b = PosInf)

\* self.val_best as __init__ leaves it, lines 96-101
InitValBest ==
    [name \in {"fgd", "l1div", "bc", "test_clip_fgd"} |->
        IF name \in {"fgd", "test_clip_fgd"}
        THEN [value |-> PosInf, epoch |-> 0]
        ELSE [value |-> NegInf, epoch |-> 0]]

\* self.tracker.loss_meters in iteration order: the four metrics the
\* trainer tracks and one it does not
OtherMeter == "loss"
MeterOrder == <<"fgd", "l1div", "bc", "test_clip_fgd", OtherMeter>>
MeterNames == {MeterOrder[i] : i \in 1..Len(MeterOrder)}

\* states['val'] of one meter: its count and its average
Reading(count, avg) == [count |-> count, avg |-> avg]
NoReading == Reading(0, Num(0))
MetricValues == {NegInf, Num(0), Num(1), PosInf, NaN}
ValuesOn(S) ==
    {v \in [S -> MetricValues] : OtherMeter \in S => v[OtherMeter] = Num(0)}
\* the meters a call may find, with at most most of them having a count
MeterReadings(most) ==
    UNION {{[name \in MeterNames |->
                IF name \in S THEN Reading(1, v[name]) ELSE NoReading] :
            v \in ValuesOn(S)} :
           S \in {S \in SUBSET MeterNames : Cardinality(S) <= most}}
Recorded(meters) == {name \in MeterNames : meters[name].count > 0}
RECURSIVE ReadingsIn(_)
ReadingsIn(log) ==
    IF log = <<>> THEN 0
    ELSE Cardinality(Recorded(Head(log).meters)) + ReadingsIn(Tail(log))

\* a comparison that also takes an equal value for better
IsBetterOrTie(name, value, current_best) ==
    IF name \in {"l1div", "bc"}
    THEN value = current_best \/ FloatLess(current_best, value)
    ELSE value = current_best \/ FloatLess(value, current_best)

\* is_better, lines 217-222
IsBetter(name, value, current_best) ==
    IF name \in {"fgd", "test_clip_fgd"} THEN FloatLess(value, current_best)
    ELSE IF name \in {"l1div", "bc"} THEN FloatLess(current_best, value)
    ELSE FloatLess(value, current_best)

\* save_checkpoint, lines 275-302; the optimizer's and the scheduler's
\* states are not followed. A path is <<"checkpoint", epoch>> or
\* <<"best", name>>, and torch.save replaces what the path held.
NoFiles == [path \in {} |-> 0]
save_checkpoint(fs, vb, model, epoch, iteration, is_best, best_metric_name) ==
    LET checkpoint == [epoch |-> epoch,
                       iteration |-> iteration,
                       model_state_dict |-> model,
                       val_best |-> vb]
        regular == IF epoch % 20 = 0
                   THEN Put(fs, <<"checkpoint", epoch>>, checkpoint)
                   ELSE fs
    IN  IF is_best /\ best_metric_name # "None"
        THEN Put(regular, <<"best", best_metric_name>>, checkpoint)
        ELSE regular

\* lines 208-240: one meter of the loop; st holds val_best, files and the
\* metrics gathered so far
RecordMeter(st, name, metric, model, epoch) ==
    IF metric.count > 0
    THEN LET value == metric.avg
             seen == [st EXCEPT !.metrics = Put(@, <<"val", name>>, value)]
         IN  IF name \in DOMAIN st.val_best
             THEN LET better == IsBetter(name, value, st.val_best[name].value)
                      vb == IF better
                            THEN [st.val_best EXCEPT
                                     ![name] = [value |-> value, epoch |-> epoch]]
                            ELSE st.val_best
                      fs == IF better
                            THEN save_checkpoint(st.files, vb, model, epoch,
                                                 epoch * TrainLoaderLen, TRUE, name)
                            ELSE st.files
                  IN  [val_best |-> vb,
                       files |-> fs,
                       metrics |-> Put(Put(seen.metrics,
                                           <<"best", name>>, vb[name].value),
                                       <<"best_epoch", name>>, vb[name].epoch)]
             ELSE seen
    ELSE st

RECURSIVE RecordMeters(_, _, _, _, _)
RecordMeters(st, names, meters, model, epoch) ==
    IF names = <<>> THEN st
    ELSE RecordMeters(RecordMeter(st, Head(names), meters[Head(names)], model, epoch),
                      Tail(names), meters, model, epoch)

\* val_recording, lines 202-269: the loop over the meters, then the regular
\* checkpoint
val_recording(vb, fs, meters, model, epoch) ==
    LET st == RecordMeters([val_best |-> vb, files |-> fs, metrics |-> NoFiles],
                           MeterOrder, meters, model, epoch)
    IN  [st EXCEPT !.files = save_checkpoint(st.files, st.val_best, model, epoch,
                                             epoch * TrainLoaderLen, FALSE, "None")]

\* the main loop validates at the epochs that are multiples of val_period,
\* lines 466-476, one val_recording after another; what a call logged
\* (lines 250-269) is kept in val_log
ValRecording ==
    /\ pc = "idle" \/ (pc = "returned" /\ val_log # <<>>)
    /\ Len(val_log) < MaxValidations
    /\ LET epoch == (Len(val_log) + 1) * val_period
       IN  \E meters \in MeterReadings(MaxRecorded - ReadingsIn(val_log)) :
               LET out == val_recording(val_best, files, meters, theta, epoch)
               IN  /\ val_best' = out.val_best
                   /\ files' = out.files
                   /\ val_log' = Append(val_log, [epoch |-> epoch,
                                                  meters |-> meters,
                                                  metrics |-> out.metrics,
                                                  best |-> out.val_best])
    /\ pc' = "returned"
    /\ UNCHANGED <<theta, calls, error, trainVars, fwdVars, ret, bundle, rngVars>>

\* ------------------------------------------------------ custom_collate
MaxCollateBatch == 2    \* batches of 1..MaxCollateBatch samples
MaxIntentions == 2      \* 0..MaxIntentions intentions in a sample
IntentionLens == {1, 2} \* seq_len of one intention's [seq_len, hidden] tensor
HiddenSizes == {512}     \* hidden size of the intention encoder feeding the dataset
FallbackHidden == 768   \* hidden_size when no sample of the batch has intentions
NoneHidden == 0         \* hidden_size = None

\* a [len, hidden] tensor by its rows: 0 is a row of zeros, 1 a row of an
\* intention's embedding
Embedding(rows, hidden) == [rows |-> rows, hidden |-> hidden]
zeros(n, hidden) == Embedding([i \in 1..n |-> 0], hidden)

\* torch.cat(tensors, dim=0) of a list that is not empty
RECURSIVE cat(_)
cat(tensors) ==
    IF Len(tensors) = 1 THEN Head(tensors)
    ELSE Embedding(Head(tensors).rows \o cat(Tail(tensors)).rows,
                   Head(tensors).hidden)

\* a sample of the dataset: its intentions' embeddings and their texts
CollateSamples(hidden) ==
    {[intention_embeddings |-> e,
      intention_texts |-> [k \in 1..Len(e) |-> "text"]] :
     e \in UNION {[1..n -> {Embedding([i \in 1..len |-> 1], hidden) :
                            len \in IntentionLens}] : n \in 0..MaxIntentions}}
CollateBatches ==
    UNION {[1..B -> CollateSamples(hidden)] :
           B \in 1..MaxCollateBatch, hidden \in HiddenSizes}

\* lines 51-54: the hidden size of the first sample that has intentions
FoundHidden(batch) ==
    LET with == {i \in 1..Len(batch) : Len(batch[i].intention_embeddings) > 0}
    IN  IF with = {} THEN NoneHidden
        ELSE batch[CHOOSE i \in with : \A k \in with : i <= k]
                 .intention_embeddings[1].hidden

\* lines 44-64: the loop over the samples from sample i on
RECURSIVE CollectIntentions(_, _, _)
CollectIntentions(batch, i, acc) ==
    IF i > Len(batch) THEN acc
    ELSE LET list == batch[i].intention_embeddings
         IN  IF Len(list) = 0
             THEN LET hs == IF acc.hidden_size # NoneHidden THEN acc.hidden_size
                            ELSE IF FoundHidden(batch) # NoneHidden
                                 THEN FoundHidden(batch)
                                 ELSE FallbackHidden
                  IN  CollectIntentions(batch, i + 1,
                          [cat_intentions |-> Append(acc.cat_intentions, zeros(1, hs)),
                           lengths |-> Append(acc.lengths, 0),
                           hidden_size |-> hs])
             ELSE LET concat == cat(list)
                  IN  CollectIntentions(batch, i + 1,
                          [cat_intentions |-> Append(acc.cat_intentions, concat),
                           lengths |-> Append(acc.lengths, Len(concat.rows)),
                           hidden_size |-> IF acc.hidden_size = NoneHidden
                                           THEN concat.hidden
                                           ELSE acc.hidden_size])

\* max of a list that is not empty
MaxOf(s) == CHOOSE m \in {s[i] : i \in 1..Len(s)} : \A i \in 1..Len(s) : s[i] <= m

\* pad_sequence(sequences, batch_first=True): zero rows up to the longest
pad_sequence(seqs) ==
    LET longest == MaxOf([i \in 1..Len(seqs) |-> Len(seqs[i].rows)])
    IN  [shape |-> <<Len(seqs), longest, seqs[1].hidden>>,
         rows |-> [i \in 1..Len(seqs) |->
                      [j \in 1..longest |->
                          IF j <= Len(seqs[i].rows) THEN seqs[i].rows[j] ELSE 0]]]

\* lines 70-73: a mask as wide as the longest length, true below each length
make_mask(B, max_len, lengths) ==
    [shape |-> <<B, max_len>>,
     rows |-> [i \in 1..B |-> [j \in 1..max_len |-> j <= lengths[i]]]]

\* custom_collate, lines 37-84, of a batch whose samples hold
\* intention_embeddings and intention_texts; pad_sequence refuses tensors
\* whose hidden sizes differ
custom_collate(batch) ==
    LET got == CollectIntentions(batch, 1,
                   [cat_intentions |-> <<>>, lengths |-> <<>>,
                    hidden_size |-> NoneHidden])
        max_len == MaxOf(got.lengths)
    IN  IF \E i \in 1..Len(batch) :
              got.cat_intentions[i].hidden # got.cat_intentions[1].hidden
        THEN Return("custom_collate", batch, <<>>, "RuntimeError")
        ELSE Return("custom_collate", batch,
                    [intention_embeddings |-> pad_sequence(got.cat_intentions),
                     intention_mask |-> make_mask(Len(batch), max_len, got.lengths),
                     intention_texts |-> [i \in 1..Len(batch) |->
                                             batch[i].intention_texts]],
                    "none")

CustomCollate ==
    /\ pc = "idle"
    /\ \E batch \in CollateBatches : ret' = custom_collate(batch)
    /\ pc' = "returned"
    /\ UNCHANGED <<theta, calls, error, trainVars, fwdVars, bundle, rngVars,
                   valVars>>

\* ------------------------------------------------------------- Init
Init ==
    /\ pc = "idle"
    /\ theta = 0
    /\ calls = <<>>
    /\ error = "none"
    /\ batch_size = 0
    /\ flow_batch_size = 0
    /\ latents = <<>>
    /\ x0_noise = <<>>
    /\ t = <<>>
    /\ d = <<>>
    /\ x_t = <<>>
    /\ flow_pred = <<>>
    /\ force_cfg = <<>>
    /\ speed_t = <<>>
    /\ speed_td = <<>>
    /\ speed_pred = <<>>
    /\ losses = EmptyDict
    /\ num_inference_steps = 0
    /\ timesteps = <<>>
    /\ delta_t = 0
    /\ step = 0
    /\ speed = <<>>
    /\ x_cur = 0
    /\ heap = EmptyHeap
    /\ return_dict = EmptyRefs
    /\ drawn_noise = NoTensor
    /\ updates = <<>>
    /\ ret = NoReturn
    /\ bundle = {}
    /\ generators = seed_everything(NoGenerators, 0)
    /\ stream = NoStream
    /\ entry = generators
    /\ first = NoFirst
    /\ val_best = InitValBest
    /\ files = NoFiles
    /\ val_log = <<>>

\* ------------------------------------------------------------ claims
TrainSampled ==
    pc \in {"train_flow", "train_speed_t", "train_speed_td", "train_pred",
            "train_return", "train_done"}
InForward == pc \in {"fwd_loop", "fwd_update", "fwd_done"}
IsGuided(c) == c.fn = "forward_with_cfg"
GuidedCalls == SelectSeq(calls, IsGuided)
RECURSIVE Sum(_)
Sum(s) == IF s = <<>> THEN 0 ELSE Head(s) + Sum(Tail(s))
\* the largest k with 4 * k <= 3 * B, which is floor(0.75 * B)
Floor34(B) == CHOOSE k \in 0..B : 4 * k <= 3 * B /\ 4 * (k + 1) > 3 * B

\* C1: in train_forward, for every batch size B >= 1, the flow subset is the
\* index range [0, floor(0.75 B)) and the consistency subset is
\* [floor(0.75 B), B): the flow call gets exactly the first floor(0.75 B)
\* examples, the consistency calls exactly the others, every example is in
\* one of the two and none in both (B = 8 splits into 6 and 2).
C1_BatchPartition ==
    /\ FlowBatchSize(8) = 6
    /\ (TrainSampled /\ batch_size >= 1) =>
          LET f == Floor34(batch_size)
          IN  /\ flow_batch_size = f
              /\ Len(calls) >= 2 =>
                    /\ calls[2].x = [i \in 1..f |-> x_t[i]]
                    /\ calls[2].timesteps = [i \in 1..f |-> t[i]]
              /\ Len(calls) >= 3 =>
                    /\ calls[3].x = [i \in 1..(batch_size - f) |-> x_t[f + i]]
                    /\ calls[3].timesteps = [i \in 1..(batch_size - f) |-> t[f + i]]
                    /\ Len(calls[2].x) + Len(calls[3].x) = batch_size
C1_Witness ==
    /\ pc = "train_done"
    /\ batch_size = 5
    /\ Len(calls[2].x) = 3
    /\ Len(calls[3].x) = 2

\* C2: for every batch size and every outcome of the index draw, d[i] = 0 for
\* all i < floor(0.75 B) and d[i] is one of 1/2, 1/4, ..., 1/128 for all
\* i >= floor(0.75 B); the flow call gets cond_time = 0 throughout and no
\* consistency example has d = 0.
C2_StepSizeVector ==
    TrainSampled =>
        /\ Len(d) = batch_size
        /\ \A i \in 1..batch_size :
              IF i <= Floor34(batch_size)
              THEN d[i] = <<0, 1>>
              ELSE d[i] \in {<<1, 2>>, <<1, 4>>, <<1, 8>>, <<1, 16>>, <<1, 32>>,
                             <<1, 64>>, <<1, 128>>}
        /\ Len(calls) >= 2 =>
              \A i \in 1..Len(calls[2].cond_time) : calls[2].cond_time[i] = <<0, 1>>
        /\ Len(calls) >= 3 =>
              \A i \in 1..Len(calls[3].cond_time) : calls[3].cond_time[i] # <<0, 1>>
C2_Witness ==
    /\ pc = "train_done"
    /\ batch_size = 5
    /\ d = <<Num(0), Num(0), Num(0), Frac(1, 2), Frac(1, 128)>>
    /\ calls[3].cond_time = <<Frac(1, 2), Frac(1, 128)>>

\* C3: for every num_inference_steps = N >= 1, forward builds a grid of
\* exactly N + 1 points, strictly increasing from epsilon to 1 - epsilon;
\* each adjacent grid pair gets one guided oracle invocation followed by one
\* latent update, and the call ends with exactly N of each.
C3_GridAndStepCount ==
    InForward =>
        LET N == num_inference_steps
        IN  /\ Len(timesteps) = N + 1
            /\ \A k \in 1..N : timesteps[k] < timesteps[k + 1]
            /\ timesteps[1] * EpsInv = EpsInv * N
            /\ timesteps[N + 1] + timesteps[1] = EpsInv * N
            /\ Len(updates) = step - 1
            /\ Len(GuidedCalls) = Len(updates) + (IF pc = "fwd_update" THEN 1 ELSE 0)
            /\ Len(GuidedCalls) <= N
            /\ pc = "fwd_done" => (Len(GuidedCalls) = N /\ Len(updates) = N)
C3_Witness ==
    /\ pc = "fwd_done"
    /\ num_inference_steps = 4
    /\ Len(timesteps) = 5
    /\ Len(GuidedCalls) = 4
    /\ Len(updates) = 4

C5_ForwardResult ==
    InForward =>
        /\ heap[return_dict["init_noise"]] = drawn_noise
        /\ heap[return_dict["seed"]] = SeedVectors(drawn_noise.shape[1])
        /\ heap[return_dict["at_feat"]] = AudioLow(drawn_noise.shape[1])
        /\ heap[return_dict["intent_feat"]] = AudioHigh(drawn_noise.shape[1])
        /\ pc = "fwd_done" =>
              /\ DOMAIN return_dict =
                    {"seed", "at_feat", "intent_feat", "init_noise", "latents"}
              /\ return_dict["latents"] = x_cur
              /\ Len(updates) = num_inference_steps
              /\ heap[return_dict["latents"]].shape = drawn_noise.shape
              /\ drawn_noise.shape = <<Len(drawn_noise.val), InputDim, 1, SeqLen>>
              /\ \A i \in 1..Len(drawn_noise.val) :
                    heap[return_dict["latents"]].val[i] =
                        drawn_noise.val[i]
                        + (EpsInv - 2) * FSum([k \in 1..Len(GuidedCalls) |->
                              Num(ForwardWithCfg(theta, GuidedCalls[k].x,
                                                 GuidedCalls[k].timesteps,
                                                 GuidedCalls[k].cond_time,
                                                 num_inference_steps).val[i])])[1]
C5_Witness ==
    /\ pc = "fwd_done"
    /\ num_inference_steps = 4
    /\ Len(drawn_noise.val) = 2
    /\ heap[return_dict["latents"]] # heap[return_dict["init_noise"]]
    /\ heap[return_dict["init_noise"]] = drawn_noise

\* C6: the dictionary train_forward returns has exactly the entries
\* flow_loss, consistency_loss and loss, and loss is flow_loss plus
\* consistency_loss, each with weight 1, and nothing else.
C6_TotalLoss ==
    pc = "train_done" =>
        /\ DOMAIN losses = {"flow_loss", "consistency_loss", "loss"}
        /\ losses["loss"] = FAdd(losses["flow_loss"], losses["consistency_loss"])
C6_Witness ==
    /\ pc = "train_done"
    /\ IsFinite(losses["loss"])
    /\ FLess(Num(0), losses["flow_loss"])
    /\ FLess(Num(0), losses["consistency_loss"])
    /\ losses["flow_loss"] # losses["consistency_loss"]

\* C7: for every batch size B >= 1, every draw and every oracle with finite
\* values, the flow_loss and the consistency_loss train_forward returns are
\* each finite and non-negative, never NaN.
C7_LossesFiniteNonNegative ==
    (pc = "train_done" /\ batch_size >= 1) =>
        /\ IsFinite(losses["flow_loss"])
        /\ FLeq(Num(0), losses["flow_loss"])
        /\ IsFinite(losses["consistency_loss"])
        /\ FLeq(Num(0), losses["consistency_loss"])

\* C8: when the consistency subset of a batch is empty, train_forward
\* tolerates it: no error is raised, and the consistency loss adds zero to
\* the total loss instead of being NaN.
C8_EmptyConsistencyTolerated ==
    (/\ pc \in {"train_error", "train_done"}
     /\ TrainFailure(bundle) = "none"
     /\ batch_size - flow_batch_size = 0) =>
        /\ pc = "train_done"
        /\ error = "none"
        /\ losses["consistency_loss"] = Num(0)
        /\ losses["loss"] = losses["flow_loss"]

IsSampler(fn) ==
    fn \in {"sample_t", "sample_t_fast", "sample_beta_distribution", "sample_cosmap"}

\* C9 as stated: every value a sampler returns lies strictly inside
\* (t_min, t_max) = (1e-5, 1 - 1e-5), whatever the base draw, 0 and its
\* mirror 1 included.
C9_StrictlyInsideRange ==
    IsSampler(ret.fn) =>
        \A i \in 1..Len(ret.out) :
            /\ (One \div 100000) * 1 < ret.out[i]
            /\ ret.out[i] < (One \div 100000) * 99999

\* C9, amended: every sampler returns num_samples values, each in the closed
\* interval [t_min, t_max] = [1e-5, 1 - 1e-5] and so strictly inside (0, 1);
\* the bounds themselves are returned, t_min for a base draw of 0 and t_max
\* for its mirror 1.
C9_InsideClosedRange ==
    IsSampler(ret.fn) =>
        /\ Len(ret.out) = ret.arg[1]
        /\ \A i \in 1..Len(ret.out) :
              /\ (One \div 100000) * 1 <= ret.out[i]
              /\ ret.out[i] <= (One \div 100000) * 99999
              /\ 0 < ret.out[i]
              /\ ret.out[i] < One
C9_Witness ==
    /\ ret.fn = "sample_t_fast"
    /\ ret.out = <<(One \div 100000) * 1, (One \div 100000) * 99999>>

\* C10 as stated: reshape_coefs succeeds only for an input of exactly one
\* dimension, returning (B, 1, 1, 1), and fails for every other rank.
C10_OnlyOneDimension ==
    ret.fn = "reshape_coefs" =>
        /\ ret.error = "none" <=> Len(ret.arg) = 1
        /\ ret.error = "none" => ret.out = <<ret.arg[1], 1, 1, 1>>

\* C10, amended: reshape_coefs returns shape (B, 1, 1, 1), B the first
\* dimension, for every input of rank >= 1 that holds exactly B elements:
\* every 1-D input, and also those of higher rank whose other dimensions are
\* all 1 (or whose first dimension is 0); it fails for a 0-D input and for
\* every input whose element count is not its first dimension.
C10_ElementCountDecides ==
    ret.fn = "reshape_coefs" =>
        /\ ret.error = "none" <=>
              /\ Len(ret.arg) >= 1
              /\ \/ ret.arg[1] = 0
                 \/ \A i \in 2..Len(ret.arg) : ret.arg[i] = 1
        /\ ret.error = "none" => ret.out = <<ret.arg[1], 1, 1, 1>>
        /\ Len(ret.arg) = 1 => ret.error = "none"
        /\ Len(ret.arg) = 0 => ret.error = "IndexError"
C10_Witness ==
    /\ ret.fn = "reshape_coefs"
    /\ ret.arg = <<2, 1>>
    /\ ret.error = "none"
    /\ ret.out = <<2, 1, 1, 1>>

\* C11: two invocations of train_forward that each begin right after
\* seed_everything was given the same seed, with the same inputs, begin in the
\* same state of the generators and draw the same noise, the same t, the same
\* d and the same force flags; they end the same way, and with the same
\* denoiser they return the same flow, consistency and total losses.
C11_SameSeedSameRun ==
    (/\ first.called
     /\ entry.seeded >= 0
     /\ entry.seeded = first.entry.seeded
     /\ latents = first.latents
     /\ bundle = first.bundle) =>
        /\ entry = first.entry
        /\ pc # "train_sample" =>
              /\ x0_noise = first.x0_noise
              /\ t = first.t
              /\ d = first.d
        /\ pc \in {"train_speed_td", "train_pred", "train_return", "train_done"} =>
              force_cfg = first.force_cfg
        /\ pc \in {"train_done", "train_error"} =>
              /\ pc = first.pc
              /\ error = first.error
        /\ (pc = "train_done" /\ theta = first.theta) =>
              /\ losses["flow_loss"] = first.losses["flow_loss"]
              /\ losses["consistency_loss"] = first.losses["consistency_loss"]
              /\ losses["loss"] = first.losses["loss"]
C11_Witness ==
    /\ first.called
    /\ pc = "train_done"
    /\ entry.seeded = 0
    /\ entry = first.entry
    /\ theta = first.theta
    /\ batch_size = 2
    /\ force_cfg = <<TRUE>>
    /\ force_cfg = first.force_cfg
    /\ d = first.d
    /\ IsFinite(losses["loss"])
    /\ FLess(Num(0), losses["loss"])
    /\ losses = first.losses

\* C12: when one of audio_tensor, audio_low, audio_high, id, seed,
\* style_feature, intention_embeddings, intention_mask is missing from the
\* bundle, forward and train_forward end with a KeyError that nothing in them
\* catches, and neither the modality encoder nor the denoiser has been invoked.
C12_MissingKeyFailsFast ==
    (/\ pc \notin {"idle", "returned"}
     /\ \E k \in {"audio_tensor", "audio_low", "audio_high", "id", "seed",
                  "style_feature", "intention_embeddings", "intention_mask"} :
           k \notin bundle) =>
        /\ pc \in {"train_error", "fwd_error"}
        /\ error = "KeyError"
        /\ calls = <<>>
C12_Witness ==
    /\ pc = "train_error"
    /\ error = "KeyError"
    /\ "intention_mask" \notin bundle
    /\ "word" \in bundle
    /\ calls = <<>>
    /\ Len(latents) = 2

\* C13: the flow loss weights use the flow subset's times only: the squared
\* error of each flow example is divided by that example's t and the
\* quotients are averaged, so no t of a consistency example enters.
C13_FlowLossUsesFlowTimes ==
    (pc = "train_done" /\ flow_batch_size >= 1) =>
        LET flow_target == [i \in 1..flow_batch_size |->
                               FSub(latents[i], x0_noise[i])]
            sq == SquaredError(flow_target, flow_pred)
        IN  losses["flow_loss"] =
                Mean([i \in 1..flow_batch_size |-> FDiv(sq[i], t[i])])

\* C14: a train_forward call invokes the denoiser four times, in this order:
\* the flow prediction on the flow subset; without gradient speed_t at
\* (x_t, t, cond_time = d) on the consistency subset; without gradient
\* speed_td at (x_t + d * speed_t, t + d, cond_time = d), whose input is made
\* of the output of the call before; with gradient the prediction at
\* (x_t, t, cond_time = 2 d).  The consistency target is the mean of speed_t
\* and speed_td.
C14_FourOracleCallsInOrder ==
    TrainSampled =>
        LET f == flow_batch_size
            n == batch_size - flow_batch_size
            xs == [i \in 1..n |-> x_t[f + i]]
            ts == [i \in 1..n |-> t[f + i]]
            ds == [i \in 1..n |-> d[f + i]]
        IN  /\ Len(calls) = (CASE pc = "train_flow" -> 1
                               [] pc = "train_speed_t" -> 2
                               [] pc = "train_speed_td" -> 3
                               [] pc = "train_pred" -> 4
                               [] OTHER -> 5)
            /\ calls[1].fn = "modality_encoder"
            /\ \A k \in 2..Len(calls) : calls[k].fn = "denoiser"
            /\ Len(calls) >= 2 =>
                  /\ calls[2].x = [i \in 1..f |-> x_t[i]]
                  /\ calls[2].timesteps = [i \in 1..f |-> t[i]]
                  /\ ~calls[2].no_grad
            /\ Len(calls) >= 3 =>
                  /\ calls[3].x = xs
                  /\ calls[3].timesteps = ts
                  /\ calls[3].cond_time = ds
                  /\ calls[3].no_grad
                  /\ speed_t = Denoiser(theta, xs, ts, ds, force_cfg, TRUE)
            /\ Len(calls) >= 4 =>
                  /\ calls[4].x =
                        [i \in 1..n |-> FAdd(xs[i], FMul(ds[i], speed_t[i]))]
                  /\ calls[4].timesteps = [i \in 1..n |-> FAdd(ts[i], ds[i])]
                  /\ calls[4].cond_time = ds
                  /\ calls[4].no_grad
                  /\ speed_td = Denoiser(theta, calls[4].x, calls[4].timesteps,
                                         ds, force_cfg, TRUE)
            /\ Len(calls) >= 5 =>
                  /\ calls[5].x = xs
                  /\ calls[5].timesteps = ts
                  /\ calls[5].cond_time = [i \in 1..n |-> FMul(Num(2), ds[i])]
                  /\ ~calls[5].no_grad
            /\ pc = "train_done" =>
                  losses["consistency_loss"] =
                      MseLoss(speed_pred,
                              [i \in 1..n |->
                                  FDiv(FAdd(speed_t[i], speed_td[i]), Num(2))])
C14_Witness ==
    /\ pc = "train_done"
    /\ batch_size = 5
    /\ Len(calls) = 5
    /\ speed_t = <<Num(1), Num(-1)>>
    /\ calls[4].x # calls[3].x
    /\ speed_td # speed_t
    /\ calls[5].cond_time = <<Num(1), Frac(1, 64)>>

\* C15: the three consistency evaluations of one call get the same force
\* flags, drawn once, one flag per consistency example, and the same slices
\* [floor(0.75 B):] of seed, at_feat, intent_feat, instance ids and style
\* features; the flow call gets no force flag.
C15_SameFlagsAndSlices ==
    TrainSampled =>
        LET f == Floor34(batch_size)
            n == batch_size - Floor34(batch_size)
        IN  /\ Len(calls) >= 2 => ~calls[2].has_force
            /\ \A k \in 3..Len(calls) :
                  /\ calls[k].has_force
                  /\ calls[k].force_cfg = force_cfg
                  /\ Len(calls[k].force_cfg) = n
                  /\ calls[k].seed = [i \in 1..n |-> <<"seed", f + i>>]
                  /\ calls[k].at_feat = [i \in 1..n |-> <<"audio_low", f + i>>]
                  /\ calls[k].intent_feat = [i \in 1..n |-> <<"audio_high", f + i>>]
                  /\ calls[k].instance_ids = [i \in 1..n |-> <<"id", f + i>>]
                  /\ calls[k].style_features =
                        [i \in 1..n |-> <<"style_feature", f + i>>]
C15_Witness ==
    /\ pc = "train_done"
    /\ batch_size = 5
    /\ force_cfg = <<TRUE, FALSE>>
    /\ calls[3].force_cfg = <<TRUE, FALSE>>
    /\ calls[4].force_cfg = <<TRUE, FALSE>>
    /\ calls[5].force_cfg = <<TRUE, FALSE>>
    /\ calls[5].seed = <<<<"seed", 4>>, <<"seed", 5>>>>

\* C16 as stated: the cond_time = 2 d of the trainable prediction exceeds 1
\* at the large end of the step sizes: a call that drew d = 1/2 for an
\* example passes a cond_time above 1.
C16_DoubledStepExceedsOne ==
    (/\ TrainSampled
     /\ Len(calls) >= 5
     /\ \E i \in 1..Len(d) : d[i] = deltas[1]) =>
        \E i \in 1..Len(calls[5].cond_time) : FLess(Num(1), calls[5].cond_time[i])

\* C16, amended: the cond_time = 2 d of the trainable prediction is not
\* clamped and never exceeds 1: over the step sizes 1/2 ... 1/128 it is one
\* of 1, 1/2, ... 1/64, and it is exactly 1 when d = 1/2.
C16_DoubledStepAtMostOne ==
    /\ \A i \in 1..NumDeltas :
          /\ FLeq(FMul(Num(2), deltas[i]), Num(1))
          /\ FMul(Num(2), deltas[i]) = Num(1) <=> i = 1
    /\ (TrainSampled /\ Len(calls) >= 5) =>
          \A i \in 1..(batch_size - flow_batch_size) :
              /\ calls[5].cond_time[i] = FMul(Num(2), d[flow_batch_size + i])
              /\ FLeq(calls[5].cond_time[i], Num(1))
              /\ FLeq(Frac(1, 64), calls[5].cond_time[i])
              /\ calls[5].cond_time[i] = Num(1) <=> d[flow_batch_size + i] = Frac(1, 2)
C16_Witness ==
    /\ pc = "train_done"
    /\ batch_size = 5
    /\ d[5] = Frac(1, 2)
    /\ calls[5].cond_time[2] = Num(1)

\* C17: word and audio_onset are optional for both entry points: with every
\* required key and no word key, with or without audio_onset, forward like
\* train_forward invokes the modality encoder with no word and goes on
\* instead of failing.
C17_WordOptional ==
    (/\ pc \notin {"idle", "returned"}
     /\ MissingKeys(bundle) = {}
     /\ "word" \notin bundle) =>
        /\ pc # "fwd_error"
        /\ error \notin {"KeyError", "UnboundLocalError"}
        /\ Len(calls) >= 1
        /\ calls[1].fn = "modality_encoder"
        /\ calls[1].word = "None"

C19_OnlyFlowSubsetEmpties ==
    (TrainSampled /\ batch_size >= 1) =>
        /\ batch_size - flow_batch_size >= 1
        /\ flow_batch_size = 0 <=> batch_size = 1
        /\ pc = "train_done" =>
              /\ ~IsNaN(losses["consistency_loss"])
              /\ IsNaN(losses["flow_loss"]) <=> batch_size = 1
C19_Witness ==
    /\ pc = "train_done"
    /\ batch_size = 1
    /\ flow_batch_size = 0
    /\ Len(speed_pred) = 1
    /\ IsNaN(losses["flow_loss"])
    /\ IsFinite(losses["consistency_loss"])

\* C20: the time t + d of the second evaluation without gradient is not
\* clamped: with t in (0, 1) and d in 1/2 ... 1/128 it lies in (1/128, 3/2),
\* and it is above 1 exactly when t > 1 - d, as for t = 3/4 and d = 1/2.
C20_TimePlusStepUnclamped ==
    (TrainSampled /\ Len(calls) >= 4) =>
        \A i \in 1..(batch_size - flow_batch_size) :
            LET ti == t[flow_batch_size + i]
                di == d[flow_batch_size + i]
                td == calls[4].timesteps[i]
            IN  /\ FLess(Num(0), ti) /\ FLess(ti, Num(1))
                /\ td = FAdd(ti, di)
                /\ FLess(Frac(1, 128), td)
                /\ FLess(td, Frac(3, 2))
                /\ FLess(Num(1), td) <=> FLess(FSub(Num(1), di), ti)
C20_Witness ==
    /\ pc = "train_done"
    /\ t[batch_size] = Frac(3, 4)
    /\ d[batch_size] = Frac(1, 2)
    /\ calls[4].timesteps[batch_size - flow_batch_size] = Frac(5, 4)

\* C21: after any sequence of val_recording calls the stored best of each
\* tracked metric is the running optimum of the values recorded so far
\* (the minimum for fgd and test_clip_fgd, the maximum for l1div and bc, the
\* initial +inf / -inf with epoch 0 when no value improved on it): a call
\* never makes it worse; a call changes it only when the call's value is
\* strictly better, and then to that value with that call's epoch, saving
\* the best checkpoint of that metric; a value equal to the stored best
\* leaves the earlier epoch in place.
BestBefore(k) == IF k = 1 THEN InitValBest ELSE val_log[k - 1].best
RecordedAt(name, k) == val_log[k].meters[name].count > 0
Improves(name, a, b) ==
    IF name \in {"fgd", "test_clip_fgd"} THEN FloatLess(a, b) ELSE FloatLess(b, a)
C21_BestIsRunningOptimum ==
    /\ val_best = IF val_log = <<>> THEN InitValBest
                  ELSE val_log[Len(val_log)].best
    /\ \A name \in {"fgd", "l1div", "bc", "test_clip_fgd"} :
          LET best == val_best[name]
              path == <<"best", name>>
          IN  /\ \A k \in 1..Len(val_log) :
                    LET before == BestBefore(k)[name]
                        after == val_log[k].best[name]
                        value == val_log[k].meters[name].avg
                    IN  /\ ~Improves(name, before.value, after.value)
                        /\ after # before <=>
                              RecordedAt(name, k) /\ Improves(name, value, before.value)
                        /\ after # before =>
                              after = [value |-> value, epoch |-> val_log[k].epoch]
                        /\ (after # before /\ k = Len(val_log)) =>
                              /\ path \in DOMAIN files
                              /\ files[path].epoch = val_log[k].epoch
                              /\ files[path].val_best[name] = after
                        /\ RecordedAt(name, k) =>
                              ~Improves(name, value, best.value)
              /\ \/ best = InitValBest[name] /\ path \notin DOMAIN files
                 \/ \E k \in 1..Len(val_log) :
                       /\ RecordedAt(name, k)
                       /\ best = [value |-> val_log[k].meters[name].avg,
                                  epoch |-> val_log[k].epoch]
                       /\ Improves(name, best.value, InitValBest[name].value)
                       /\ \A j \in 1..(k - 1) :
                             RecordedAt(name, j) =>
                                 val_log[j].meters[name].avg # best.value
                       /\ path \in DOMAIN files
                       /\ files[path].epoch = best.epoch
                       /\ files[path].val_best[name] = best
C21_Witness ==
    /\ Len(val_log) = 2
    /\ val_log[1].meters["fgd"] = Reading(1, Num(0))
    /\ val_log[2].meters["fgd"] = Reading(1, Num(0))
    /\ val_best["fgd"] = [value |-> Num(0), epoch |-> 10]
    /\ files[<<"best", "fgd">>].epoch = 10
    /\ <<"checkpoint", 20>> \in DOMAIN files

\* C22: for every batch of one sample or more given to custom_collate,
\* with or without samples that have no intentions, intention_mask has the
\* batch size and the sequence length of the padded intention_embeddings,
\* mask[i][j] is true exactly when j is below the length of sample i's
\* concatenated intentions, and a sample with no intentions has a row of
\* the mask that is all false and rows of the embeddings that are zeros.
IntentionLength(sample) ==
    Sum([k \in 1..Len(sample.intention_embeddings) |->
            Len(sample.intention_embeddings[k].rows)])
C22_MaskMatchesEmbeddings ==
    (ret.fn = "custom_collate") =>
        /\ ret.error = "none"
        /\ LET batch == ret.arg
               padded == ret.out.intention_embeddings
               mask == ret.out.intention_mask
           IN  /\ mask.shape[1] = Len(batch)
               /\ padded.shape[1] = Len(batch)
               /\ mask.shape[2] = padded.shape[2]
               /\ \A i \in 1..Len(batch) :
                     /\ \A j \in 1..padded.shape[2] :
                           mask.rows[i][j] <=> j <= IntentionLength(batch[i])
                     /\ Len(batch[i].intention_embeddings) = 0 =>
                           \A j \in 1..padded.shape[2] :
                               ~mask.rows[i][j] /\ padded.rows[i][j] = 0

Next ==
    \/ TrainCall
    \/ TrainSample
    \/ TrainFlow
    \/ TrainSpeedT
    \/ TrainSpeedTd
    \/ TrainPred
    \/ TrainReturn
    \/ SeedEverything
    \/ TrainAgain
    \/ ForwardCall
    \/ ForwardOracle
    \/ ForwardUpdate
    \/ ForwardReturn
    \/ SampleT
    \/ SampleTFast
    \/ SampleBetaDistribution
    \/ SampleCosmap
    \/ ReshapeCoefs
    \/ ValRecording
    \/ CustomCollate

Spec == Init /\ [][Next]_vars

====
